---- MODULE Spec2Model ----
(***************************************************************************)
(* A model of the turnpike WAMP router core: the publish/subscribe broker  *)
(* (broker.go) and the router's admission and shutdown (router.go).        *)
(*                                                                         *)
(* Every session runs its message loop in its own goroutine, so every      *)
(* session has at most one broker call in flight; calls of different       *)
(* sessions interleave at the granularity of the broker's RWMutex.         *)
(***************************************************************************)
EXTENDS Integers, Sequences, FiniteSets, TLC

(***************************************************************************)
(* Bounds of the model.                                                    *)
(***************************************************************************)
\* the number of IDs NewID() hands out (subscriptions and publications)
MaxID == 3
\* the number of goroutines that call Router.Close
NumClosers == 3

Sessions == {"s1", "s2"}
Topics == {"t1", "t2"}
\* msg.Request: request ids are scoped to a session, and every session
\* sends its requests under one id of its own
RequestOf == [s \in Sessions |-> IF s = "s1" THEN "r1" ELSE "r2"]
IDs == 1..MaxID
NoSession == "none"

Closers == 1..NumClosers
NoCloser == 0
URIs == {"realm1", "realm2"}
Realms == {"ra", "rb"}
NoRealm == "none"
\* the peers handed to Accept, and the sessions GetLocalPeer makes
Peers == {"p1", "p2"}
LocalPeers == {"l1"}
AllPeers == Peers \cup LocalPeers
\* the functions registered as session callbacks
OpenCallbacks == {"onOpen"}
CloseCallbacks == {"onClose"}

(***************************************************************************)
(* Option values: Go interface{} values, a dynamic type and a value.       *)
(***************************************************************************)
BoolTrue == [t |-> "bool", v |-> "true"]
StrTrue == [t |-> "string", v |-> "true"]
StrExact == [t |-> "string", v |-> "exact"]
StrPrefix == [t |-> "string", v |-> "prefix"]
ListVal == [t |-> "list", v |-> "[1]"]

\* the option maps a SUBSCRIBE message carries
SubOptions ==
    { [match |-> StrExact],
      [match |-> ListVal] }

\* the option maps a PUBLISH message carries
PubOptions ==
    { [acknowledge |-> BoolTrue],
      [acknowledge |-> StrTrue, match |-> StrExact],
      [match |-> StrPrefix],
      [acknowledge |-> BoolTrue, match |-> ListVal] }

(***************************************************************************)
(* Go maps as functions with a finite domain.                              *)
(***************************************************************************)
EmptyMap == <<>>
Has(m, k) == k \in DOMAIN m
MapPut(m, k, v) == [x \in DOMAIN m \cup {k} |-> IF x = k THEN v ELSE m[x]]
MapDel(m, k) == [x \in DOMAIN m \ {k} |-> m[x]]
\* m[k] of a map of maps, the nil map when k is missing
Inner(m, k) == IF Has(m, k) THEN m[k] ELSE EmptyMap

VARIABLES
    routes,         \* br.routes: topic -> (id -> session)
    options,        \* br.options: topic -> (id -> option map)
    subscriptions,  \* br.subscriptions: id -> topic
    sessions,       \* br.sessions: session -> set of ids
    writer,         \* br.lock: the session holding the write lock, or NoSession
    readers,        \* br.lock: the sessions holding a read lock
    nextID,         \* the number of IDs NewID() has handed out
    pc,             \* pc[s]: where session s is in its current broker call
    call,           \* call[s]: the arguments and locals of that call
    log,            \* log[s]: the messages that call has sent, in order
    creator,        \* history: id -> the session whose Subscribe minted it
    subscribedSent, \* history: the ids whose SUBSCRIBED has been sent
    unsubAcked,     \* history: the ids whose UNSUBSCRIBED has been sent
    prev            \* history: the last Subscribe, the maps before it, and
                    \* whether its session has unsubscribed it right after

brokerVars == <<routes, options, subscriptions, sessions, writer, readers,
                nextID, pc, call, log, creator, subscribedSent, unsubAcked, prev>>

VARIABLES
    realms,         \* r.realms: uri -> realm
    closing,        \* r.closing
    closeLock,      \* r.closeLock: the caller holding it, or NoCloser
    inits,          \* inits[realm]: the number of realm.init() calls
    realmCloses,    \* realmCloses[realm]: the number of realm.Close() calls
    cpc,            \* cpc[c]: where caller c is in Router.Close
    ctodo,          \* ctodo[c]: the uris its range over r.realms has left
    crange          \* crange[c]: the uris its range over r.realms visits

closeVars == <<realms, closing, closeLock, inits, realmCloses, cpc, ctodo,
               crange>>

VARIABLES
    lastReg,        \* the last RegisterRealm call: its uri, realm and result
    firstRealm      \* history: uri -> the realm of the first call for uri

VARIABLES
    sessionOpenCallbacks,   \* r.sessionOpenCallbacks
    sessionCloseCallbacks,  \* r.sessionCloseCallbacks
    apc,            \* apc[p]: where Accept(p) or GetLocalPeer is
    aret,           \* aret[p]: what the call has returned
    plog,           \* plog[p]: what has happened on the peer, in order
    spc,            \* spc[p]: where the goroutine of p's session is
    srealm,         \* srealm[p]: the realm that runs p's session
    kill,           \* kill[p]: sess.kill holds a reason
    afterClose      \* history: a Close had returned when Accept(p) started

acceptVars == <<sessionOpenCallbacks, sessionCloseCallbacks, apc, aret, plog,
                spc, srealm, kill, afterClose>>

routerVars == <<closeVars, lastReg, firstRealm, acceptVars>>

vars == <<brokerVars, routerVars>>

(***************************************************************************)
(* Messages the broker sends (message.go), as records of one shape.        *)
(***************************************************************************)
Msg(type, of, to, request, subscription, publication, error) ==
    [type |-> type, of |-> of, to |-> to, request |-> request,
     subscription |-> subscription, publication |-> publication,
     error |-> error]

ErrNoSuchSubscription == "wamp.error.no_such_subscription"

EventMsg(to, id, pubID) == Msg("EVENT", "-", to, "-", id, pubID, "-")
PublishedMsg(to, request, pubID) ==
    Msg("PUBLISHED", "-", to, request, 0, pubID, "-")
SubscribedMsg(to, request, id) ==
    Msg("SUBSCRIBED", "-", to, request, id, 0, "-")
UnsubscribedMsg(to, request) ==
    Msg("UNSUBSCRIBED", "-", to, request, 0, 0, "-")

UnsubscribeErrorAsUnsubscribed(to, request) == UnsubscribedMsg(to, request)

\* Error{Type: msg.MessageType(), Request: msg.Request,
\*       Error: ErrNoSuchSubscription}
UnsubscribeErrorMsg(to, request) ==
    Msg("ERROR", "UNSUBSCRIBE", to, request, 0, 0, ErrNoSuchSubscription)

(***************************************************************************)
(* The locals of a broker call.                                            *)
(***************************************************************************)
NoCall ==
    [op |-> "none", topic |-> "-", opts |-> EmptyMap, request |-> "-",
     id |-> 0, sub |-> 0, todo |-> {}, range |-> {}, found |-> FALSE,
     dead |-> {}, live |-> {}]

Idle(s) == pc[s] = "idle"
\* a panic in a session's goroutine is not recovered: the process is gone
Running == \A s \in Sessions : pc[s] # "panic"

WUnlockHeld(s) == s

\* sync.RWMutex
CanLock == writer = NoSession /\ readers = {}
CanRLock == writer = NoSession
WUnlock(s) == NoSession

Maps == [routes |-> routes, options |-> options,
         subscriptions |-> subscriptions, sessions |-> sessions]
NoPrev == [sess |-> NoSession, id |-> 0, maps |-> EmptyMap, rt |-> FALSE]

(***************************************************************************)
(* Subscribe                                                               *)
(***************************************************************************)
\* route[id] = sub, creating br.routes[msg.Topic] when missing
SubscribeRoutes(r, topic, id, sub) ==
    MapPut(r, topic, MapPut(Inner(r, topic), id, sub))

\* option[id] = msg.Options, creating br.options[msg.Topic] when missing
SubscribeOptions(o, topic, id, opts) ==
    MapPut(o, topic, MapPut(Inner(o, topic), id, opts))

\* subs[id] = struct{}{}, creating br.sessions[sub] when missing
SubscribeSessions(ss, sub, id) ==
    MapPut(ss, sub, (IF Has(ss, sub) THEN ss[sub] ELSE {}) \cup {id})

\* id := NewID(); br.lock.Lock(), entered with a SUBSCRIBE{request, options,
\* topic}
SubscribeLock(s) ==
    /\ Running /\ Idle(s)
    /\ nextID < MaxID
    /\ CanLock
    /\ \E topic \in Topics, opts \in SubOptions :
          call' = [call EXCEPT ![s] =
                      [NoCall EXCEPT !.op = "Subscribe", !.topic = topic,
                                     !.opts = opts, !.request = RequestOf[s],
                                     !.id = nextID + 1]]
    /\ nextID' = nextID + 1
    /\ writer' = s
    /\ pc' = [pc EXCEPT ![s] = "sub_cs"]
    /\ log' = [log EXCEPT ![s] = <<>>]
    /\ UNCHANGED <<routes, options, subscriptions, sessions, readers,
                   creator, subscribedSent, unsubAcked, prev>>
    /\ UNCHANGED routerVars

\* the four insertions, then br.lock.Unlock()
SubscribeBody(s) ==
    LET c == call[s] IN
    /\ Running /\ pc[s] = "sub_cs"
    /\ routes' = SubscribeRoutes(routes, c.topic, c.id, s)
    /\ options' = SubscribeOptions(options, c.topic, c.id, c.opts)
    /\ sessions' = SubscribeSessions(sessions, s, c.id)
    /\ subscriptions' = MapPut(subscriptions, c.id, c.topic)
    /\ writer' = WUnlock(s)
    /\ pc' = [pc EXCEPT ![s] = "sub_send"]
    /\ creator' = MapPut(creator, c.id, s)
    /\ prev' = [sess |-> s, id |-> c.id, maps |-> Maps, rt |-> FALSE]
    /\ UNCHANGED <<readers, nextID, call, log, subscribedSent, unsubAcked>>
    /\ UNCHANGED routerVars

\* sub.Send(&Subscribed{Request: msg.Request, Subscription: id})
SubscribeSend(s) ==
    LET c == call[s] IN
    /\ Running /\ pc[s] = "sub_send"
    /\ log' = [log EXCEPT ![s] = Append(@, SubscribedMsg(s, c.request, c.id))]
    /\ subscribedSent' = subscribedSent \cup {c.id}
    /\ pc' = [pc EXCEPT ![s] = "done"]
    /\ UNCHANGED <<routes, options, subscriptions, sessions, writer, readers,
                   nextID, call, creator, unsubAcked, prev>>
    /\ UNCHANGED routerVars

(***************************************************************************)
(* Unsubscribe                                                             *)
(***************************************************************************)
DeleteNoPrune(m, topic, id) ==
    IF ~Has(m, topic) THEN m
    ELSE IF ~Has(m[topic], id) THEN m
    ELSE MapPut(m, topic, MapDel(m[topic], id))

\* delete(m[topic], id) and delete(m, topic) when that leaves it empty;
\* a missing topic or a missing id is logged and nothing changes
DeletePrune(m, topic, id) ==
    IF ~Has(m, topic) THEN m
    ELSE IF ~Has(m[topic], id) THEN m
    ELSE LET inner == MapDel(m[topic], id) IN
         IF DOMAIN inner = {} THEN MapDel(m, topic)
         ELSE MapPut(m, topic, inner)

UnsubscribeRoutesKeep(r, topic, id) == r

\* clean up routes
UnsubscribeRoutes(r, topic, id) == DeletePrune(r, topic, id)

UnsubscribeOptionsKeep(o, topic, id) == o

\* clean up options
UnsubscribeOptions(o, topic, id) == DeletePrune(o, topic, id)

UnsubscribeSessionsNoPrune(ss, sub, id) ==
    IF ~Has(ss, sub) THEN ss
    ELSE MapPut(ss, sub, ss[sub] \ {id})

\* clean up sender's subscription: br.sessions[sub] of the requester
UnsubscribeSessions(ss, sub, id) ==
    IF ~Has(ss, sub) THEN ss
    ELSE IF id \notin ss[sub] THEN ss
    ELSE LET rest == ss[sub] \ {id} IN
         IF rest = {} THEN MapDel(ss, sub)
         ELSE MapPut(ss, sub, rest)

\* topic, ok := br.subscriptions[msg.Subscription]
UnsubscribeKnown(sm, id) == Has(sm, id)

\* br.lock.Lock(), entered with an UNSUBSCRIBE{request, subscription}
UnsubscribeLock(s) ==
    /\ Running /\ Idle(s)
    /\ CanLock
    /\ \E id \in IDs :
          call' = [call EXCEPT ![s] =
                      [NoCall EXCEPT !.op = "Unsubscribe", !.sub = id,
                                     !.request = RequestOf[s]]]
    /\ writer' = s
    /\ pc' = [pc EXCEPT ![s] = "unsub_cs"]
    /\ log' = [log EXCEPT ![s] = <<>>]
    /\ UNCHANGED <<routes, options, subscriptions, sessions, readers, nextID,
                   creator, subscribedSent, unsubAcked, prev>>
    /\ UNCHANGED routerVars

\* the lookup; on a miss br.lock.Unlock() and the error path
UnsubscribeMiss(s) ==
    LET c == call[s] IN
    /\ Running /\ pc[s] = "unsub_cs"
    /\ ~UnsubscribeKnown(subscriptions, c.sub)
    /\ writer' = WUnlock(s)
    /\ pc' = [pc EXCEPT ![s] = "unsub_err"]
    /\ UNCHANGED <<routes, options, subscriptions, sessions, readers, nextID,
                   call, log, creator, subscribedSent, unsubAcked,
                   prev>>
    /\ UNCHANGED routerVars

\* the lookup; on a hit the four deletions, then br.lock.Unlock()
UnsubscribeBody(s) ==
    LET c == call[s]
        id == c.sub
    IN
    /\ Running /\ pc[s] = "unsub_cs"
    /\ UnsubscribeKnown(subscriptions, id)
    /\ LET topic == subscriptions[id] IN
          /\ subscriptions' = MapDel(subscriptions, id)
          /\ routes' = UnsubscribeRoutes(routes, topic, id)
          /\ options' = UnsubscribeOptions(options, topic, id)
          /\ sessions' = UnsubscribeSessions(sessions, s, id)
    /\ writer' = WUnlock(s)
    /\ call' = [call EXCEPT ![s].found = TRUE]
    /\ prev' = IF prev.sess = s /\ prev.id = id /\ ~prev.rt
               THEN [prev EXCEPT !.rt = TRUE]
               ELSE NoPrev
    /\ pc' = [pc EXCEPT ![s] = "unsub_send"]
    /\ UNCHANGED <<readers, nextID, log, creator, subscribedSent, unsubAcked>>
    /\ UNCHANGED routerVars

\* sub.Send(err)
UnsubscribeSendError(s) ==
    LET c == call[s] IN
    /\ Running /\ pc[s] = "unsub_err"
    /\ log' = [log EXCEPT ![s] = Append(@, UnsubscribeErrorMsg(s, c.request))]
    /\ pc' = [pc EXCEPT ![s] = "done"]
    /\ UNCHANGED <<routes, options, subscriptions, sessions, writer, readers,
                   nextID, call, creator, subscribedSent, unsubAcked,
                   prev>>
    /\ UNCHANGED routerVars

\* sub.Send(&Unsubscribed{Request: msg.Request})
UnsubscribeSend(s) ==
    LET c == call[s] IN
    /\ Running /\ pc[s] = "unsub_send"
    /\ log' = [log EXCEPT ![s] = Append(@, UnsubscribedMsg(s, c.request))]
    /\ unsubAcked' = unsubAcked \cup {c.sub}
    /\ pc' = [pc EXCEPT ![s] = "done"]
    /\ UNCHANGED <<routes, options, subscriptions, sessions, writer, readers,
                   nextID, call, creator, subscribedSent, prev>>
    /\ UNCHANGED routerVars

(***************************************************************************)
(* RemoveSubscriber                                                        *)
(***************************************************************************)
\* the loop over br.sessions[sub]: an id missing from br.subscriptions is
\* skipped, the others leave subscriptions, routes and options
RECURSIVE RemoveIDs(_, _)
RemoveIDs(st, ids) ==
    IF ids = {} THEN st
    ELSE LET id == CHOOSE x \in ids : TRUE
             st1 == IF ~Has(st.subscriptions, id) THEN st
                    ELSE LET topic == st.subscriptions[id] IN
                         [subscriptions |-> MapDel(st.subscriptions, id),
                          routes |-> DeletePrune(st.routes, topic, id),
                          options |-> DeletePrune(st.options, topic, id)]
         IN RemoveIDs(st1, ids \ {id})

RemoveSessionsKeep(ss, sub) == ss

\* delete(br.sessions, sub)
RemoveSessions(ss, sub) == MapDel(ss, sub)

\* br.lock.Lock(); defer br.lock.Unlock()
RemoveSubscriberLock(s) ==
    /\ Running /\ Idle(s)
    /\ CanLock
    /\ call' = [call EXCEPT ![s] = [NoCall EXCEPT !.op = "RemoveSubscriber"]]
    /\ writer' = s
    /\ pc' = [pc EXCEPT ![s] = "rm_cs"]
    /\ log' = [log EXCEPT ![s] = <<>>]
    /\ UNCHANGED <<routes, options, subscriptions, sessions, readers, nextID,
                   creator, subscribedSent, unsubAcked, prev>>
    /\ UNCHANGED routerVars

\* the loop, delete(br.sessions, sub) and the deferred unlock
RemoveSubscriberBody(s) ==
    LET st == RemoveIDs([subscriptions |-> subscriptions, routes |-> routes,
                         options |-> options],
                        IF Has(sessions, s) THEN sessions[s] ELSE {})
    IN
    /\ Running /\ pc[s] = "rm_cs"
    /\ subscriptions' = st.subscriptions
    /\ routes' = st.routes
    /\ options' = st.options
    /\ sessions' = RemoveSessions(sessions, s)
    /\ writer' = WUnlock(s)
    /\ prev' = NoPrev
    /\ pc' = [pc EXCEPT ![s] = "done"]
    /\ UNCHANGED <<readers, nextID, call, log, creator, subscribedSent,
                   unsubAcked>>
    /\ UNCHANGED routerVars

(***************************************************************************)
(* Publish                                                                 *)
(***************************************************************************)
\* subValue != pubValue on two interface{} values: values of different
\* dynamic types differ; two values of one uncomparable type (a list, a map)
\* make the comparison panic
Compare(subValue, pubValue) ==
    IF subValue.t # pubValue.t THEN "ne"
    ELSE IF subValue.t = "list" THEN "panic"
    ELSE IF subValue.v = pubValue.v THEN "eq"
    ELSE "ne"

\* the loop over msg.Options for one subscriber: "skip" at the first key of
\* both maps whose values differ, "panic" at the first comparison that
\* panics, "send" when the loop ends; the order of the keys is the map's
FilterOutcomes(subOptions, pubOptions) ==
    LET common == DOMAIN subOptions \cap DOMAIN pubOptions
        differ == {k \in common : Compare(subOptions[k], pubOptions[k]) = "ne"}
        panics == {k \in common : Compare(subOptions[k], pubOptions[k]) = "panic"}
    IN  (IF differ # {} THEN {"skip"} ELSE {})
        \cup (IF panics # {} THEN {"panic"} ELSE {})
        \cup (IF differ = {} /\ panics = {} THEN {"send"} ELSE {})

IsPublisherNever(sub, pub) == FALSE

\* if sub == pub { continue }
IsPublisher(sub, pub) == sub = pub

\* doPub, _ := msg.Options["acknowledge"].(bool)
DoPub(pubOptions) ==
    /\ Has(pubOptions, "acknowledge")
    /\ pubOptions["acknowledge"].t = "bool"
    /\ pubOptions["acknowledge"].v = "true"

\* the ids the range over br.routes[msg.Topic] visits
RangeRoutes(r, topic) == DOMAIN Inner(r, topic)

\* subOptions := br.options[msg.Topic][id]
SubscriberOptions(o, topic, id) == Inner(Inner(o, topic), id)

\* pubID := NewID() and the event template; br.lock.RLock() and the start of
\* the range over br.routes[msg.Topic], entered with a PUBLISH{request,
\* options, topic}
PublishRLock(s) ==
    /\ Running /\ Idle(s)
    /\ nextID < MaxID
    /\ CanRLock
    /\ \E topic \in Topics, opts \in PubOptions :
          call' = [call EXCEPT ![s] =
                      [NoCall EXCEPT !.op = "Publish", !.topic = topic,
                                     !.opts = opts, !.request = RequestOf[s],
                                     !.id = nextID + 1,
                                     !.todo = RangeRoutes(routes, topic),
                                     !.range = RangeRoutes(routes, topic),
                                     !.dead = unsubAcked,
                                     !.live = subscribedSent]]
    /\ nextID' = nextID + 1
    /\ readers' = readers \cup {s}
    /\ pc' = [pc EXCEPT ![s] = "pub_loop"]
    /\ log' = [log EXCEPT ![s] = <<>>]
    /\ UNCHANGED <<routes, options, subscriptions, sessions, writer,
                   creator, subscribedSent, unsubAcked, prev>>
    /\ UNCHANGED routerVars

\* one iteration that sends nothing: the subscriber is the publisher, or an
\* option of both sides differs
PublishSkip(s) ==
    LET c == call[s] IN
    /\ Running /\ pc[s] = "pub_loop"
    /\ \E id \in c.todo :
          /\ \/ IsPublisher(routes[c.topic][id], s)
             \/ /\ ~IsPublisher(routes[c.topic][id], s)
                /\ "skip" \in FilterOutcomes(
                                 SubscriberOptions(options, c.topic, id), c.opts)
          /\ call' = [call EXCEPT ![s].todo = @ \ {id}]
    /\ UNCHANGED <<routes, options, subscriptions, sessions, writer, readers,
                   nextID, pc, log, creator, subscribedSent, unsubAcked,
                   prev>>
    /\ UNCHANGED routerVars

\* one iteration in which the comparison of two option values panics: the
\* goroutine dies with the read lock held, and the process with it
PublishPanic(s) ==
    LET c == call[s] IN
    /\ Running /\ pc[s] = "pub_loop"
    /\ \E id \in c.todo :
          /\ ~IsPublisher(routes[c.topic][id], s)
          /\ "panic" \in FilterOutcomes(
                            SubscriberOptions(options, c.topic, id), c.opts)
    /\ pc' = [pc EXCEPT ![s] = "panic"]
    /\ UNCHANGED <<routes, options, subscriptions, sessions, writer, readers,
                   nextID, call, log, creator, subscribedSent, unsubAcked,
                   prev>>
    /\ UNCHANGED routerVars

\* one iteration that sends: event.Subscription = id; sub.Send(&event)
PublishEvent(s) ==
    LET c == call[s] IN
    /\ Running /\ pc[s] = "pub_loop"
    /\ \E id \in c.todo :
          /\ ~IsPublisher(routes[c.topic][id], s)
          /\ "send" \in FilterOutcomes(
                           SubscriberOptions(options, c.topic, id), c.opts)
          /\ log' = [log EXCEPT ![s] =
                        Append(@, EventMsg(routes[c.topic][id], id, c.id))]
          /\ call' = [call EXCEPT ![s].todo = @ \ {id}]
    /\ UNCHANGED <<routes, options, subscriptions, sessions, writer, readers,
                   nextID, pc, creator, subscribedSent, unsubAcked,
                   prev>>
    /\ UNCHANGED routerVars

\* the end of the range: br.lock.RUnlock()
PublishRUnlock(s) ==
    /\ Running /\ pc[s] = "pub_loop"
    /\ call[s].todo = {}
    /\ readers' = readers \ {s}
    /\ call' = [call EXCEPT ![s].range = {}, ![s].dead = {}, ![s].live = {}]
    /\ pc' = [pc EXCEPT ![s] = "pub_ack"]
    /\ UNCHANGED <<routes, options, subscriptions, sessions, writer, nextID,
                   log, creator, subscribedSent, unsubAcked,
                   prev>>
    /\ UNCHANGED routerVars

\* if doPub { pub.Send(&Published{Request: msg.Request, Publication: pubID}) }
PublishAck(s) ==
    LET c == call[s] IN
    /\ Running /\ pc[s] = "pub_ack"
    /\ log' = [log EXCEPT ![s] =
                  IF DoPub(c.opts)
                  THEN Append(@, PublishedMsg(s, c.request, c.id))
                  ELSE @]
    /\ pc' = [pc EXCEPT ![s] = "done"]
    /\ UNCHANGED <<routes, options, subscriptions, sessions, writer, readers,
                   nextID, call, creator, subscribedSent, unsubAcked,
                   prev>>
    /\ UNCHANGED routerVars

\* the call returns to the session's message loop
Return(s) ==
    /\ Running /\ pc[s] = "done"
    /\ pc' = [pc EXCEPT ![s] = "idle"]
    /\ call' = [call EXCEPT ![s] = NoCall]
    /\ log' = [log EXCEPT ![s] = <<>>]
    /\ UNCHANGED <<routes, options, subscriptions, sessions, writer, readers,
                   nextID, creator, subscribedSent, unsubAcked, prev>>
    /\ UNCHANGED routerVars

(***************************************************************************)
(* Router: RegisterRealm and Close                                         *)
(***************************************************************************)
NoReg == [uri |-> "-", realm |-> "-", ret |-> "-"]

RealmExistsNever(rs, uri) == FALSE

\* if _, ok := r.realms[uri]; ok { return RealmExistsError(uri) }
RealmExists(rs, uri) == Has(rs, uri)

\* RegisterRealm(uri, realm).  The realms map is not locked: registration
\* runs while no Close ranges over it.
RegisterRealm ==
    /\ \A c \in Closers : cpc[c] # "close_loop"
    /\ \E uri \in URIs, realm \in Realms :
          /\ IF RealmExists(realms, uri)
             THEN /\ lastReg' = [uri |-> uri, realm |-> realm,
                                 ret |-> "RealmExistsError"]
                  /\ UNCHANGED <<realms, inits>>
             ELSE /\ inits' = [inits EXCEPT ![realm] = @ + 1]
                  /\ realms' = MapPut(realms, uri, realm)
                  /\ lastReg' = [uri |-> uri, realm |-> realm, ret |-> "nil"]
          /\ firstRealm' = IF Has(firstRealm, uri) THEN firstRealm
                           ELSE MapPut(firstRealm, uri, realm)
    /\ UNCHANGED <<closing, closeLock, realmCloses, cpc, ctodo, crange>>
    /\ UNCHANGED acceptVars
    /\ UNCHANGED brokerVars

IsClosingNever(flag) == FALSE

\* if r.closing
IsClosing(flag) == flag

\* r.closeLock.Lock()
CloseLock(c) ==
    /\ cpc[c] = "idle"
    /\ closeLock = NoCloser
    /\ closeLock' = c
    /\ cpc' = [cpc EXCEPT ![c] = "close_check"]
    /\ UNCHANGED <<realms, closing, inits, realmCloses, ctodo, crange>>
    /\ UNCHANGED <<lastReg, firstRealm, acceptVars>>
    /\ UNCHANGED brokerVars

\* r.closing is set: r.closeLock.Unlock(); return fmt.Errorf("already closed")
CloseAlready(c) ==
    /\ cpc[c] = "close_check"
    /\ IsClosing(closing)
    /\ closeLock' = NoCloser
    /\ cpc' = [cpc EXCEPT ![c] = "already closed"]
    /\ UNCHANGED <<realms, closing, inits, realmCloses, ctodo, crange>>
    /\ UNCHANGED <<lastReg, firstRealm, acceptVars>>
    /\ UNCHANGED brokerVars

\* r.closing = true; r.closeLock.Unlock(); the range over r.realms starts
CloseMark(c) ==
    /\ cpc[c] = "close_check"
    /\ ~IsClosing(closing)
    /\ closing' = TRUE
    /\ closeLock' = NoCloser
    /\ ctodo' = [ctodo EXCEPT ![c] = DOMAIN realms]
    /\ crange' = [crange EXCEPT ![c] = DOMAIN realms]
    /\ cpc' = [cpc EXCEPT ![c] = "close_loop"]
    /\ UNCHANGED <<realms, inits, realmCloses>>
    /\ UNCHANGED <<lastReg, firstRealm, acceptVars>>
    /\ UNCHANGED brokerVars

\* Realm.Close(): the kill channel of every live session of the realm gets
\* a reason; the channel has one slot and the send does not block
RealmClose(k, loops, of, realm) ==
    [x \in AllPeers |-> k[x] \/ (loops[x] = "loop" /\ of[x] = realm)]

\* realm.Close() for one realm of the range
CloseRealm(c) ==
    /\ cpc[c] = "close_loop"
    /\ \E uri \in ctodo[c] :
          /\ realmCloses' = [realmCloses EXCEPT ![realms[uri]] = @ + 1]
          /\ kill' = RealmClose(kill, spc, srealm, realms[uri])
          /\ ctodo' = [ctodo EXCEPT ![c] = @ \ {uri}]
    /\ UNCHANGED <<realms, closing, closeLock, inits, cpc, crange>>
    /\ UNCHANGED <<lastReg, firstRealm, sessionOpenCallbacks,
                   sessionCloseCallbacks, apc, aret, plog, spc, srealm,
                   afterClose>>
    /\ UNCHANGED brokerVars

\* the range is over: return nil
CloseReturn(c) ==
    /\ cpc[c] = "close_loop"
    /\ ctodo[c] = {}
    /\ cpc' = [cpc EXCEPT ![c] = "nil"]
    /\ UNCHANGED <<realms, closing, closeLock, inits, realmCloses, ctodo,
                   crange>>
    /\ UNCHANGED <<lastReg, firstRealm, acceptVars>>
    /\ UNCHANGED brokerVars

(***************************************************************************)
(* Router: session callbacks and Accept                                    *)
(***************************************************************************)
\* what happens on a peer: a message sent or received, a Close, a goroutine
\* spawned or returning
Ev(e, a, d) == [e |-> e, a |-> a, d |-> d]

ErrSystemShutdown == "wamp.error.system_shutdown"
ErrNoSuchRealm == "wamp.error.no_such_realm"
ErrAuthorizationFailed == "wamp.error.authorization_failed"
ErrProtocolViolation == "wamp.error.protocol_violation"

\* the first message of a peer: a HELLO for a realm, or another message
FirstMessages ==
    {[kind |-> "SUBSCRIBE", realm |-> "-"]}
       \cup {[kind |-> "HELLO", realm |-> u] : u \in URIs}
\* GetMessageTimeout(client, 5*time.Second) without a message
ReceiveErrors == {"timeout", "receive error"}
\* realm.handleAuth(client, hello.Details): a WELCOME or an error
HandleAuth == {"welcome", "denied"}
\* client.Send(welcome)
SendResults == {"ok", "send error"}

Received(m) == Ev("recv", m.kind, m.realm)

AbortOnly(reason, details) == <<Ev("ABORT", reason, details)>>

\* logErr(client.Send(&Abort{Reason: reason})); logErr(client.Close())
AbortAndClose(reason, details) ==
    <<Ev("ABORT", reason, details), Ev("close", "-", "-")>>

SpawnNone(kind, callbacks) == <<>>

\* for _, callback := range callbacks { go callback(...) }
SpawnCallbacks(kind, callbacks) ==
    [i \in 1..Len(callbacks) |-> Ev(kind, callbacks[i], "-")]

Registered(callbacks) == {callbacks[i] : i \in 1..Len(callbacks)}

\* the callbacks are appended without a lock: they are registered before
\* the router accepts peers
AddSessionOpenCallback ==
    /\ \A p \in AllPeers : apc[p] = "idle"
    /\ \E fn \in OpenCallbacks \ Registered(sessionOpenCallbacks) :
          sessionOpenCallbacks' = Append(sessionOpenCallbacks, fn)
    /\ UNCHANGED <<sessionCloseCallbacks, apc, aret, plog, spc, srealm, kill,
                   afterClose>>
    /\ UNCHANGED <<closeVars, lastReg, firstRealm>>
    /\ UNCHANGED brokerVars

AddSessionCloseCallback ==
    /\ \A p \in AllPeers : apc[p] = "idle"
    /\ \E fn \in CloseCallbacks \ Registered(sessionCloseCallbacks) :
          sessionCloseCallbacks' = Append(sessionCloseCallbacks, fn)
    /\ UNCHANGED <<sessionOpenCallbacks, apc, aret, plog, spc, srealm, kill,
                   afterClose>>
    /\ UNCHANGED <<closeVars, lastReg, firstRealm>>
    /\ UNCHANGED brokerVars

\* a Close call has returned
CloseReturned == \E c \in Closers : cpc[c] \in {"nil", "already closed"}

AcceptClosingNever(flag) == FALSE

\* if r.closing, read without closeLock
AcceptClosing(flag) == flag

\* what a step of Accept(p) leaves alone
AcceptFrame ==
    /\ UNCHANGED <<sessionOpenCallbacks, sessionCloseCallbacks, kill>>
    /\ UNCHANGED <<closeVars, lastReg, firstRealm>>
    /\ UNCHANGED brokerVars

\* Accept(client) finds the router closing
AcceptShutdown(p) ==
    /\ apc[p] = "idle"
    /\ AcceptClosing(closing)
    /\ afterClose' = [afterClose EXCEPT ![p] = CloseReturned]
    /\ plog' = [plog EXCEPT ![p] = @ \o AbortAndClose(ErrSystemShutdown, "-")]
    /\ aret' = [aret EXCEPT ![p] = "Router is closing"]
    /\ apc' = [apc EXCEPT ![p] = "returned"]
    /\ UNCHANGED <<spc, srealm>>
    /\ AcceptFrame

\* Accept(client) finds the router open and waits for the first message
AcceptBegin(p) ==
    /\ apc[p] = "idle"
    /\ ~AcceptClosing(closing)
    /\ afterClose' = [afterClose EXCEPT ![p] = CloseReturned]
    /\ apc' = [apc EXCEPT ![p] = "recv"]
    /\ UNCHANGED <<aret, plog, spc, srealm>>
    /\ AcceptFrame

\* msg, err := GetMessageTimeout(client, 5*time.Second);
\* if err != nil { return err }
AcceptReceiveFail(p) ==
    /\ apc[p] = "recv"
    /\ \E err \in ReceiveErrors :
          /\ plog' = [plog EXCEPT ![p] = Append(@, Ev("recv", err, "-"))]
          /\ aret' = [aret EXCEPT ![p] = err]
    /\ apc' = [apc EXCEPT ![p] = "returned"]
    /\ UNCHANGED <<spc, srealm, afterClose>>
    /\ AcceptFrame

\* the first message is no HELLO
AcceptNotHello(p) ==
    /\ apc[p] = "recv"
    /\ \E m \in FirstMessages :
          /\ m.kind # "HELLO"
          /\ plog' = [plog EXCEPT ![p] =
                         Append(@, Received(m))
                            \o AbortAndClose(ErrProtocolViolation, "-")]
    /\ aret' = [aret EXCEPT ![p] = "protocol violation"]
    /\ apc' = [apc EXCEPT ![p] = "returned"]
    /\ UNCHANGED <<spc, srealm, afterClose>>
    /\ AcceptFrame

\* realm, ok := r.realms[hello.Realm]; !ok
AcceptNoSuchRealm(p) ==
    /\ apc[p] = "recv"
    /\ \E m \in FirstMessages :
          /\ m.kind = "HELLO"
          /\ ~Has(realms, m.realm)
          /\ plog' = [plog EXCEPT ![p] =
                         Append(@, Received(m))
                            \o AbortAndClose(ErrNoSuchRealm, "-")]
    /\ aret' = [aret EXCEPT ![p] = "NoSuchRealmError"]
    /\ apc' = [apc EXCEPT ![p] = "returned"]
    /\ UNCHANGED <<spc, srealm, afterClose>>
    /\ AcceptFrame

\* welcome, err := realm.handleAuth(client, hello.Details); err != nil
AcceptAuthFail(p) ==
    /\ apc[p] = "recv"
    /\ \E m \in FirstMessages, auth \in HandleAuth :
          /\ m.kind = "HELLO"
          /\ Has(realms, m.realm)
          /\ auth # "welcome"
          /\ plog' = [plog EXCEPT ![p] =
                         Append(@, Received(m))
                            \o AbortAndClose(ErrAuthorizationFailed, auth)]
    /\ aret' = [aret EXCEPT ![p] = "AuthenticationError"]
    /\ apc' = [apc EXCEPT ![p] = "returned"]
    /\ UNCHANGED <<spc, srealm, afterClose>>
    /\ AcceptFrame

\* if err := client.Send(welcome); err != nil { return err }
AcceptWelcomeFail(p) ==
    /\ apc[p] = "recv"
    /\ \E m \in FirstMessages, auth \in HandleAuth, sent \in SendResults :
          /\ m.kind = "HELLO"
          /\ Has(realms, m.realm)
          /\ auth = "welcome"
          /\ sent # "ok"
          /\ plog' = [plog EXCEPT ![p] =
                         Append(@, Received(m)) \o <<Ev("WELCOME", "-", sent)>>]
          /\ aret' = [aret EXCEPT ![p] = sent]
    /\ apc' = [apc EXCEPT ![p] = "returned"]
    /\ UNCHANGED <<spc, srealm, afterClose>>
    /\ AcceptFrame

\* the HELLO names a realm, handleAuth admits the peer and WELCOME is sent
AcceptWelcome(p) ==
    /\ apc[p] = "recv"
    /\ \E m \in FirstMessages, auth \in HandleAuth, sent \in SendResults :
          /\ m.kind = "HELLO"
          /\ Has(realms, m.realm)
          /\ auth = "welcome"
          /\ sent = "ok"
          /\ plog' = [plog EXCEPT ![p] =
                         Append(@, Received(m)) \o <<Ev("WELCOME", "-", sent)>>]
          /\ srealm' = [srealm EXCEPT ![p] = realms[m.realm]]
    /\ apc' = [apc EXCEPT ![p] = "open"]
    /\ UNCHANGED <<aret, spc, afterClose>>
    /\ AcceptFrame

\* sess := Session{...}; the range over r.sessionOpenCallbacks
AcceptOpenCallbacks(p) ==
    /\ apc[p] = "open"
    /\ plog' = [plog EXCEPT ![p] =
                   @ \o SpawnCallbacks("go open", sessionOpenCallbacks)]
    /\ apc' = [apc EXCEPT ![p] = "go"]
    /\ UNCHANGED <<aret, spc, srealm, afterClose>>
    /\ AcceptFrame

\* go func() { realm.handleSession(sess, welcome.Details) ... }(); return nil
AcceptGo(p) ==
    /\ apc[p] = "go"
    /\ spc' = [spc EXCEPT ![p] = "loop"]
    /\ plog' = [plog EXCEPT ![p] = Append(@, Ev("handleSession", "-", "-"))]
    /\ aret' = [aret EXCEPT ![p] = "nil"]
    /\ apc' = [apc EXCEPT ![p] = "returned"]
    /\ UNCHANGED <<srealm, afterClose>>
    /\ AcceptFrame

(***************************************************************************)
(* Router: the session goroutines and GetLocalPeer                         *)
(***************************************************************************)
\* what a step of a session's goroutine leaves alone
SessionFrame ==
    /\ UNCHANGED <<sessionOpenCallbacks, sessionCloseCallbacks, apc, aret,
                   srealm, kill, afterClose>>
    /\ UNCHANGED <<closeVars, lastReg, firstRealm>>
    /\ UNCHANGED brokerVars

\* realm.handleSession(sess, welcome.Details) returns: the peer said
\* GOODBYE, the read failed, or sess.kill held a reason
SessionExit(p) ==
    /\ spc[p] = "loop"
    /\ spc' = [spc EXCEPT ![p] = "exited"]
    /\ plog' = [plog EXCEPT ![p] = Append(@, Ev("exit", "-", "-"))]
    /\ SessionFrame

\* sess.Close(): the Session embeds the Peer, this is the peer's Close
SessionClose(p) ==
    /\ spc[p] = "exited"
    /\ spc' = [spc EXCEPT ![p] = "closed"]
    /\ plog' = [plog EXCEPT ![p] = Append(@, Ev("close", "-", "-"))]
    /\ SessionFrame

\* the range over r.sessionCloseCallbacks; the goroutine ends
SessionCloseCallbacks(p) ==
    /\ spc[p] = "closed"
    /\ spc' = [spc EXCEPT ![p] = "done"]
    /\ plog' = [plog EXCEPT ![p] =
                   @ \o SpawnCallbacks("go close", sessionCloseCallbacks)]
    /\ SessionFrame

\* GetLocalPeer(realmURI, details) for a registered realm:
\* go realm.handleSession(sess, details); return peerB, nil
GetLocalPeer(l) ==
    /\ apc[l] = "idle"
    /\ \E realmURI \in URIs :
          /\ Has(realms, realmURI)
          /\ srealm' = [srealm EXCEPT ![l] = realms[realmURI]]
    /\ spc' = [spc EXCEPT ![l] = "loop"]
    /\ plog' = [plog EXCEPT ![l] = Append(@, Ev("handleSession", "-", "-"))]
    /\ aret' = [aret EXCEPT ![l] = "peerB"]
    /\ apc' = [apc EXCEPT ![l] = "returned"]
    /\ UNCHANGED afterClose
    /\ AcceptFrame

\* return nil, NoSuchRealmError(realmURI)
GetLocalPeerNoSuchRealm(l) ==
    /\ apc[l] = "idle"
    /\ \E realmURI \in URIs : ~Has(realms, realmURI)
    /\ aret' = [aret EXCEPT ![l] = "NoSuchRealmError"]
    /\ apc' = [apc EXCEPT ![l] = "returned"]
    /\ UNCHANGED <<plog, spc, srealm, afterClose>>
    /\ AcceptFrame

\* realm.handleSession(sess, details) returns and its goroutine ends
LocalSessionExit(l) ==
    /\ spc[l] = "loop"
    /\ spc' = [spc EXCEPT ![l] = "done"]
    /\ plog' = [plog EXCEPT ![l] = Append(@, Ev("exit", "-", "-"))]
    /\ SessionFrame

(***************************************************************************)
(* The broker under concurrent sessions.                                   *)
(***************************************************************************)
\* NewDefaultBroker()
BrokerInit ==
    /\ routes = EmptyMap
    /\ options = EmptyMap
    /\ subscriptions = EmptyMap
    /\ sessions = EmptyMap
    /\ writer = NoSession
    /\ readers = {}
    /\ nextID = 0
    /\ pc = [s \in Sessions |-> "idle"]
    /\ call = [s \in Sessions |-> NoCall]
    /\ log = [s \in Sessions |-> <<>>]
    /\ creator = EmptyMap
    /\ subscribedSent = {}
    /\ unsubAcked = {}
    /\ prev = NoPrev

\* NewDefaultRouter(), but for r.realms; no peer has come yet
RouterInit ==
    /\ closing = FALSE
    /\ closeLock = NoCloser
    /\ realmCloses = [r \in Realms |-> 0]
    /\ cpc = [c \in Closers |-> "idle"]
    /\ ctodo = [c \in Closers |-> {}]
    /\ crange = [c \in Closers |-> {}]
    /\ sessionOpenCallbacks = <<>>
    /\ sessionCloseCallbacks = <<>>
    /\ apc = [p \in AllPeers |-> "idle"]
    /\ aret = [p \in AllPeers |-> "-"]
    /\ plog = [p \in AllPeers |-> <<>>]
    /\ spc = [p \in AllPeers |-> "none"]
    /\ srealm = [p \in AllPeers |-> NoRealm]
    /\ kill = [p \in AllPeers |-> FALSE]
    /\ afterClose = [p \in AllPeers |-> FALSE]

Init ==
    /\ BrokerInit
    /\ RouterInit
    /\ realms = EmptyMap
    /\ inits = [r \in Realms |-> 0]
    /\ lastReg = NoReg
    /\ firstRealm = EmptyMap

BrokerStep(s) ==
       \/ SubscribeLock(s)
       \/ SubscribeBody(s)
       \/ SubscribeSend(s)
       \/ UnsubscribeLock(s)
       \/ UnsubscribeMiss(s)
       \/ UnsubscribeBody(s)
       \/ UnsubscribeSendError(s)
       \/ UnsubscribeSend(s)
       \/ RemoveSubscriberLock(s)
       \/ RemoveSubscriberBody(s)
       \/ PublishRLock(s)
       \/ PublishSkip(s)
       \/ PublishPanic(s)
       \/ PublishEvent(s)
       \/ PublishRUnlock(s)
       \/ PublishAck(s)
       \/ Return(s)

Next == \E s \in Sessions : BrokerStep(s)

Spec == Init /\ [][Next]_vars

(***************************************************************************)
(* The router under concurrent callers.                                    *)
(***************************************************************************)
CloseStep(c) ==
    \/ CloseLock(c)
    \/ CloseAlready(c)
    \/ CloseMark(c)
    \/ CloseRealm(c)
    \/ CloseReturn(c)

RouterNext ==
    \/ RegisterRealm
    \/ \E c \in Closers : CloseStep(c)

RouterSpec == Init /\ [][RouterNext]_vars

(***************************************************************************)
(* The router under concurrent peers and callers of Close.                 *)
(***************************************************************************)
\* the router after RegisterRealm("realm1", ra): realms are registered
\* before Accept admits peers, which reads r.realms without a lock
AcceptInit ==
    /\ BrokerInit
    /\ RouterInit
    /\ realms = MapPut(EmptyMap, "realm1", "ra")
    /\ inits = [r \in Realms |-> IF r = "ra" THEN 1 ELSE 0]
    /\ lastReg = [uri |-> "realm1", realm |-> "ra", ret |-> "nil"]
    /\ firstRealm = MapPut(EmptyMap, "realm1", "ra")

AcceptStep(p) ==
    \/ AcceptShutdown(p)
    \/ AcceptBegin(p)
    \/ AcceptReceiveFail(p)
    \/ AcceptNotHello(p)
    \/ AcceptNoSuchRealm(p)
    \/ AcceptAuthFail(p)
    \/ AcceptWelcomeFail(p)
    \/ AcceptWelcome(p)
    \/ AcceptOpenCallbacks(p)
    \/ AcceptGo(p)
    \/ SessionExit(p)
    \/ SessionClose(p)
    \/ SessionCloseCallbacks(p)

LocalStep(l) ==
    \/ GetLocalPeer(l)
    \/ GetLocalPeerNoSuchRealm(l)
    \/ LocalSessionExit(l)

AcceptNext ==
    \/ AddSessionOpenCallback
    \/ AddSessionCloseCallback
    \/ \E c \in Closers : CloseStep(c)
    \/ \E p \in Peers : AcceptStep(p)
    \/ \E l \in LocalPeers : LocalStep(l)

AcceptSpec == AcceptInit /\ [][AcceptNext]_vars

(***************************************************************************)
(* Properties of the broker                                                *)
(***************************************************************************)
Topic(id) == subscriptions[id]
Publishing(p) == call[p].op = "Publish"
\* the range over the topic's subscribers is over, or has died in a panic,
\* and the read lock is still held
LoopOver(p) ==
    \/ pc[p] = "pub_loop" /\ call[p].todo = {}
    \/ pc[p] = "panic"
Events(p) == {i \in 1..Len(log[p]) : log[p][i].type = "EVENT"}

\* id is in all four maps, consistently
Present(id) ==
    /\ Has(subscriptions, id)
    /\ Has(routes, Topic(id)) /\ Has(routes[Topic(id)], id)
    /\ Has(options, Topic(id)) /\ Has(options[Topic(id)], id)
    /\ Has(sessions, routes[Topic(id)][id])
    /\ id \in sessions[routes[Topic(id)][id]]
    /\ \A t \in DOMAIN routes \ {Topic(id)} : ~Has(routes[t], id)
    /\ \A t \in DOMAIN options \ {Topic(id)} : ~Has(options[t], id)
    /\ \A s \in DOMAIN sessions \ {routes[Topic(id)][id]} : id \notin sessions[s]

\* id is in none of the four maps
Absent(id) ==
    /\ ~Has(subscriptions, id)
    /\ \A t \in DOMAIN routes : ~Has(routes[t], id)
    /\ \A t \in DOMAIN options : ~Has(options[t], id)
    /\ \A s \in DOMAIN sessions : id \notin sessions[s]

\* C1: after every operation of any sequence of Subscribe, Unsubscribe (by
\* the subscriber or by another session) and RemoveSubscriber, every
\* subscription id is in all four maps consistently or in none of them, and
\* every id of sessions[sess] maps to a topic t with routes[t][id] = sess.
C1_AllOrNothing ==
    /\ \A id \in IDs : Present(id) \/ Absent(id)
    /\ \A sess \in DOMAIN sessions : \A id \in sessions[sess] :
          /\ Has(subscriptions, id)
          /\ Has(routes, Topic(id)) /\ Has(routes[Topic(id)], id)
          /\ routes[Topic(id)][id] = sess

\* C2: in every reachable state no inner map is empty: every topic of
\* routes and of options has a subscription, every session of sessions has
\* a subscription id.
C2_NoEmptyInnerMap ==
    /\ \A t \in DOMAIN routes : DOMAIN routes[t] # {}
    /\ \A t \in DOMAIN options : DOMAIN options[t] # {}
    /\ \A s \in DOMAIN sessions : sessions[s] # {}

\* a subscription has been deleted from a topic and from a session that
\* were left empty, while another topic and session stay
C2_Witness ==
    /\ \E id \in DOMAIN creator : Absent(id)
    /\ Cardinality(DOMAIN routes) = 1
    /\ Cardinality(DOMAIN options) = 1
    /\ Cardinality(DOMAIN sessions) = 1

JustRemoved(s) == pc[s] = "done" /\ call[s].op = "RemoveSubscriber"

\* C3: right after RemoveSubscriber(s) returns, s is in none of the four
\* maps: it is no key of sessions, no route leads to it, no subscription id
\* it created is left in subscriptions or options; and a Publish of another
\* session then sends no EVENT to s.
C3_RemovedEverywhere ==
    \A s \in Sessions : JustRemoved(s) =>
       /\ ~Has(sessions, s)
       /\ \A t \in DOMAIN routes : \A id \in DOMAIN routes[t] :
             routes[t][id] # s
       /\ \A id \in DOMAIN creator : creator[id] = s =>
             /\ ~Has(subscriptions, id)
             /\ \A t \in DOMAIN options : ~Has(options[t], id)
       /\ \A p \in Sessions \ {s} : pc[p] \in {"pub_loop", "panic"} =>
             \A i \in Events(p) : log[p][i].to # s

\* s has subscribed and has been removed, and another session publishes
C3_Witness ==
    \E s \in Sessions :
       /\ JustRemoved(s)
       /\ \E id \in DOMAIN creator : creator[id] = s
       /\ DOMAIN sessions # {}
       /\ \E p \in Sessions \ {s} : LoopOver(p) /\ pc[p] = "pub_loop"

\* C4: Subscribe(s, topic, options) followed immediately by Unsubscribe(s,
\* id) of the id just issued leaves routes, options, subscriptions and
\* sessions as they were before the Subscribe.
C4_SubscribeUnsubscribeRestores ==
    prev.rt => Maps = prev.maps

\* the round trip has run in a state that held other subscriptions, one of
\* them of the same session
C4_Witness ==
    /\ prev.rt
    /\ Has(sessions, prev.sess)
    /\ Cardinality(DOMAIN subscriptions) > 1

Missed(s) == call[s].op = "Unsubscribe" /\ ~call[s].found

C5_Replies ==
    \A s \in Sessions :
       /\ pc[s] = "unsub_err" => log[s] = <<>>
       /\ pc[s] = "done" /\ Missed(s) =>
             log[s] = << [type |-> "ERROR", of |-> "UNSUBSCRIBE", to |-> s,
                          request |-> call[s].request, subscription |-> 0,
                          publication |-> 0,
                          error |-> "wamp.error.no_such_subscription"] >>
       /\ pc[s] = "unsub_send" => call[s].sub \notin unsubAcked

C5_LeavesMaps ==
    \A s \in Sessions :
       (/\ pc[s] = "unsub_cs"
        /\ ~Has(subscriptions, call[s].sub)
        /\ pc'[s] # "unsub_cs")
       => (pc'[s] = "unsub_err" /\ Maps' = Maps)

\* C5: an Unsubscribe of an id that is not in subscriptions (never issued,
\* already unsubscribed, or removed) sends the requester exactly one
\* ERROR{UNSUBSCRIBE, msg.request, wamp.error.no_such_subscription} and no
\* UNSUBSCRIBED, and leaves the four maps unchanged; an id whose
\* UNSUBSCRIBED has been sent is never unsubscribed a second time.
C5_NoSuchSubscription == []C5_Replies /\ [][C5_LeavesMaps]_vars

\* a second Unsubscribe of an id has been answered
C5_Witness ==
    \E s \in Sessions :
       /\ pc[s] = "done" /\ Missed(s)
       /\ call[s].sub \in unsubAcked
       /\ DOMAIN subscriptions # {}

\* C6: no Publish sends an EVENT to the publishing session, whatever
\* subscriptions the publisher holds on the topic and whatever the options.
C6_NoEventToPublisher ==
    \A p \in Sessions : \A i \in Events(p) : log[p][i].to # p

\* a Publish has ranged over a topic on which the publisher and another
\* session are subscribed, and has sent an EVENT
C6_Witness ==
    \E p \in Sessions :
       /\ pc[p] = "pub_loop" /\ call[p].todo = {}
       /\ \E id \in call[p].range : routes[call[p].topic][id] = p
       /\ Events(p) # {}

\* no key of both option maps has differing values
NoOptionDiffers(subOptions, pubOptions) ==
    \A k \in DOMAIN subOptions \cap DOMAIN pubOptions :
       subOptions[k] = pubOptions[k]

\* the subscriptions a Publish of p has to deliver to
Recipients(p) ==
    {id \in RangeRoutes(routes, call[p].topic) :
        /\ routes[call[p].topic][id] # p
        /\ NoOptionDiffers(SubscriberOptions(options, call[p].topic, id),
                           call[p].opts)}

\* C7: Publish sends exactly one EVENT for every subscription of the topic
\* whose session is not the publisher and none of whose options differs
\* from the publisher's option of the same key, and no other EVENT; every
\* EVENT carries its subscription's id and the publication id of the call.
C7_DeliversToMatching ==
    \A p \in Sessions : Publishing(p) /\ LoopOver(p) =>
       /\ Events(p) = 1..Len(log[p])
       /\ {log[p][i].subscription : i \in Events(p)} = Recipients(p)
       /\ Len(log[p]) = Cardinality(Recipients(p))
       /\ \A i \in Events(p) :
             /\ log[p][i].to = routes[call[p].topic][log[p][i].subscription]
             /\ log[p][i].publication = call[p].id

\* msg.options["acknowledge"] is the boolean true
AckRequested(pubOptions) ==
    /\ Has(pubOptions, "acknowledge")
    /\ pubOptions["acknowledge"] = BoolTrue

Acks(p) == {i \in 1..Len(log[p]) : log[p][i].type = "PUBLISHED"}

\* C8: a Publish sends PUBLISHED{msg.request, publication} to the publisher
\* if and only if msg.options["acknowledge"] is the boolean true, once, with
\* the publication id of its EVENTs, and after all of its EVENTs.
C8_AcknowledgeAfterEvents ==
    \A p \in Sessions : Publishing(p) /\ pc[p] \in {"done", "panic"} =>
       /\ AckRequested(call[p].opts) <=> Acks(p) # {}
       /\ \A i \in Acks(p) :
             /\ i = Len(log[p])
             /\ log[p][i].to = p
             /\ log[p][i].request = call[p].request
             /\ log[p][i].publication = call[p].id
       /\ \A i \in Events(p) : log[p][i].publication = call[p].id

\* C9: Subscribe and Unsubscribe are linearizable with respect to Publish:
\* a Publish that starts after UNSUBSCRIBED has been sent for an id sends
\* no EVENT for it, a Publish that starts after a Subscribe has returned
\* ranges over its subscription as long as it is subscribed, and while a
\* Publish holds the read lock routes and options hold the same ids.
C9_Linearizable ==
    \A p \in Sessions : pc[p] \in {"pub_loop", "panic"} =>
       /\ \A i \in Events(p) : log[p][i].subscription \notin call[p].dead
       /\ \A id \in call[p].live :
             Has(subscriptions, id) /\ Topic(id) = call[p].topic
                => id \in call[p].range
       /\ \A t \in Topics :
             DOMAIN Inner(routes, t) = DOMAIN Inner(options, t)

\* a Publish started after an Unsubscribe was acknowledged and after a
\* Subscribe of another session on its topic returned, and has sent an EVENT
C9_Witness ==
    \E p \in Sessions :
       /\ pc[p] = "pub_loop"
       /\ call[p].dead # {}
       /\ call[p].live \cap call[p].range # {}
       /\ Events(p) # {}

\* a step that sends a message: the log of a call grows by one message
Sends(s) == Len(log'[s]) = Len(log[s]) + 1
Sent(s) == log'[s][Len(log'[s])]

C17_NoLog ==
    /\ writer # NoSession => log[writer] = <<>>
    /\ \A s \in Sessions : call[s].op = "RemoveSubscriber" => log[s] = <<>>

C17_Send ==
    \A s \in Sessions : Sends(s) =>
       /\ writer # s /\ writer' # s
       /\ Sent(s).type \in {"SUBSCRIBED", "UNSUBSCRIBED", "ERROR"} =>
             call[s].op \in {"Subscribe", "Unsubscribe"} /\ s \notin readers
       /\ s \in readers => Sent(s).type = "EVENT" /\ call[s].op = "Publish"

\* C17: no session sends a message while it holds the broker's write lock:
\* SUBSCRIBED, UNSUBSCRIBED and ERROR are sent after the write lock is
\* released, RemoveSubscriber sends nothing, and a message sent by a holder
\* of a broker lock is an EVENT of a Publish under the read lock.
C17_NoSendUnderWriteLock == []C17_NoLog /\ [][C17_Send]_vars

\* a Subscribe has sent its SUBSCRIBED while another session holds the
\* write lock
C17_Witness ==
    \E s \in Sessions :
       /\ pc[s] = "done" /\ call[s].op = "Subscribe" /\ Len(log[s]) = 1
       /\ writer \in Sessions \ {s}

\* C18: an EVENT that carries a subscription id is sent only after the
\* SUBSCRIBED reply for that id has been sent to the subscriber.
C18_SubscribedBeforeEvent ==
    \A p \in Sessions : \A i \in Events(p) :
       log[p][i].subscription \in subscribedSent

C20_Agree ==
    /\ \A t \in Topics : \A id \in IDs :
          /\ (Has(subscriptions, id) /\ subscriptions[id] = t)
                <=> Has(Inner(routes, t), id)
          /\ Has(Inner(routes, t), id) <=> Has(Inner(options, t), id)
    /\ \A id \in IDs :
          Cardinality({t \in DOMAIN routes : Has(routes[t], id)}) <= 1
    /\ \A t \in DOMAIN routes : \A id \in DOMAIN routes[t] :
          /\ Has(sessions, routes[t][id])
          /\ id \in sessions[routes[t][id]]

C20_PublishLeaves ==
    \A s \in Sessions :
       (/\ <<pc[s], call[s], log[s]>> # <<pc'[s], call'[s], log'[s]>>
        /\ (Publishing(s) \/ call'[s].op = "Publish"))
       => Maps' = Maps

\* C20: in every reachable state routes, options and subscriptions hold
\* the same subscriptions: id is in subscriptions with topic t if and only
\* if routes[t][id] exists if and only if options[t][id] exists, an id is
\* under at most one topic, routes[t][id] = sess implies that id is in
\* sessions[sess]; and no step of a Publish changes any of the four maps.
C20_ForwardIndexesAgree == []C20_Agree /\ [][C20_PublishLeaves]_vars

\* another session than the subscriber has unsubscribed an id, which
\* sessions still holds, while a subscription is left and a Publish has
\* sent an EVENT
C20_Witness ==
    /\ \E s \in DOMAIN sessions : \E id \in sessions[s] :
          ~Has(subscriptions, id)
    /\ DOMAIN subscriptions # {}
    /\ \E p \in Sessions : Events(p) # {}

(***************************************************************************)
(* Properties of the router                                                *)
(***************************************************************************)
\* the Close calls that have passed the closing guard
Winners == {c \in Closers : cpc[c] \in {"close_loop", "nil"}}
\* the realm.Close() calls a range over the uris makes on realm r
ClosesOf(uris, r) == Cardinality({u \in uris : realms[u] = r})

C10_OneWinner ==
    /\ Cardinality(Winners) <= 1
    /\ \A c \in Closers : cpc[c] = "already closed" =>
          closing /\ Winners # {}
    /\ (\A c \in Closers : cpc[c] \in {"nil", "already closed"}) =>
          Cardinality({c \in Closers : cpc[c] = "nil"}) = 1
    /\ Winners = {} => \A r \in Realms : realmCloses[r] = 0
    /\ \A c \in Winners : \A r \in Realms :
          /\ realmCloses[r] = ClosesOf(crange[c] \ ctodo[c], r)
          /\ cpc[c] = "nil" => realmCloses[r] = ClosesOf(crange[c], r)

\* C10: among any number of Close calls exactly one returns nil and closes
\* the realms, every other one returns "already closed" and closes no
\* realm, and closing, once true, stays true.
C10_CloseOnce == []C10_OneWinner /\ [][closing => closing']_vars

\* every caller has returned, one with nil after closing a realm
C10_Witness ==
    /\ \A c \in Closers : cpc[c] \in {"nil", "already closed"}
    /\ \E r \in Realms : realmCloses[r] > 0
    /\ Cardinality(DOMAIN realms) = 2

(***************************************************************************)
(* Properties of Accept and of the sessions                                *)
(***************************************************************************)
\* the places of plog[p] where e has happened
At(p, e) == {i \in 1..Len(plog[p]) : plog[p][i].e = e}
Welcomed(p) == {i \in At(p, "WELCOME") : plog[p][i].d = "ok"}

\* C11: an Accept that starts after a Close has returned sends
\* ABORT{wamp.error.system_shutdown} to the peer, then closes the peer and
\* returns an error; it receives no message, creates no session, spawns no
\* open callback and starts no session loop.
C11_RejectsAfterClose ==
    \A p \in Peers : afterClose[p] =>
       /\ apc[p] = "returned"
       /\ aret[p] = "Router is closing"
       /\ plog[p] = << [e |-> "ABORT", a |-> "wamp.error.system_shutdown",
                        d |-> "-"],
                       [e |-> "close", a |-> "-", d |-> "-"] >>
       /\ spc[p] = "none"
       /\ srealm[p] = NoRealm

\* a peer was admitted before the Close, whose session runs, and another
\* peer has come after the Close returned
C11_Witness ==
    \E p, q \in Peers :
       /\ afterClose[p]
       /\ spc[q] = "loop"
       /\ \E c \in Closers : cpc[c] = "nil"

\* C12: when Accept receives no first message, because the receive times
\* out or fails, the peer is closed before Accept returns the error, and
\* no session is made.
C12_NoMessageClosesPeer ==
    \A p \in Peers : aret[p] \in {"timeout", "receive error"} =>
       /\ At(p, "close") # {}
       /\ spc[p] = "none"

\* what a rejected peer has seen after its first message: one ABORT with
\* the reason and the details, then its Close
Rejected(p, reason, details) ==
    /\ Len(plog[p]) = 3
    /\ plog[p][2] = [e |-> "ABORT", a |-> reason, d |-> details]
    /\ plog[p][3] = [e |-> "close", a |-> "-", d |-> "-"]
    /\ At(p, "WELCOME") = {}
    /\ spc[p] = "none"

\* the first message Accept(p) has received, and what Accept has done
\* since then
FirstOf(p) == plog[p][1]
Dispatched(p) ==
    /\ apc[p] = "returned"
    /\ plog[p] # <<>>
    /\ FirstOf(p).e = "recv"
    /\ FirstOf(p).a \notin {"timeout", "receive error"}

\* C13: after a first message that is no HELLO Accept sends one
\* ABORT{wamp.error.protocol_violation}, after a HELLO for a realm that is
\* not registered one ABORT{wamp.error.no_such_realm}, after a failed
\* handleAuth one ABORT{wamp.error.authorization_failed, {error: message}};
\* only then it closes the peer, returns the matching error, makes no
\* session and sends no WELCOME.
C13_AdmissionRejections ==
    \A p \in Peers : Dispatched(p) =>
       /\ FirstOf(p).a # "HELLO" =>
             /\ aret[p] = "protocol violation"
             /\ Rejected(p, "wamp.error.protocol_violation", "-")
       /\ FirstOf(p).a = "HELLO" /\ ~Has(realms, FirstOf(p).d) =>
             /\ aret[p] = "NoSuchRealmError"
             /\ Rejected(p, "wamp.error.no_such_realm", "-")
       /\ aret[p] = "AuthenticationError" =>
             /\ FirstOf(p).a = "HELLO" /\ Has(realms, FirstOf(p).d)
             /\ Rejected(p, "wamp.error.authorization_failed", "denied")
       /\ aret[p] \in {"protocol violation", "NoSuchRealmError",
                       "AuthenticationError"}
             \/ (At(p, "ABORT") = {} /\ At(p, "WELCOME") # {})

\* a HELLO for an unknown realm and a HELLO that handleAuth denies have
\* been rejected
C13_Witness ==
    \E p, q \in Peers :
       /\ aret[p] = "NoSuchRealmError"
       /\ aret[q] = "AuthenticationError"

C14_First ==
    /\ DOMAIN realms = DOMAIN firstRealm
    /\ \A uri \in DOMAIN realms : realms[uri] = firstRealm[uri]

C14_Register ==
    /\ \A uri \in DOMAIN realms :
          Has(realms', uri) /\ realms'[uri] = realms[uri]
    /\ (lastReg' # lastReg \/ realms' # realms \/ inits' # inits) =>
          LET uri == lastReg'.uri
              realm == lastReg'.realm
          IN  IF Has(realms, uri)
              THEN /\ lastReg'.ret = "RealmExistsError"
                   /\ realms' = realms
                   /\ inits' = inits
              ELSE /\ lastReg'.ret = "nil"
                   /\ realms' = MapPut(realms, uri, realm)
                   /\ inits' = [inits EXCEPT ![realm] = @ + 1]

\* C14: RegisterRealm(uri, realm) for a uri of realms returns RealmExists,
\* calls no init and leaves realms as it is; for a new uri it calls
\* realm.init() once and stores the realm; so every uri maps to the realm
\* of the first RegisterRealm call for it.
C14_RegisterOnce == []C14_First /\ [][C14_Register]_vars

\* both uris are registered and the last call, with another realm than
\* the registered one, was rejected
C14_Witness ==
    /\ DOMAIN realms = URIs
    /\ lastReg.ret = "RealmExistsError"
    /\ realms[lastReg.uri] # lastReg.realm

\* the goroutine that runs the session of p has ended
GoroutineOver(p) == spc[p] = "done"

\* C15: every session whose message loop has been started, by Accept or by
\* GetLocalPeer, is closed once, after handleSession has returned: it is
\* never closed before that nor twice, and when its goroutine has ended it
\* has been closed.
C15_ClosedOnceAfterLoop ==
    \A p \in AllPeers : At(p, "handleSession") # {} =>
       /\ Cardinality(At(p, "close")) <= 1
       /\ \A i \in At(p, "close") : \E j \in At(p, "exit") : j < i
       /\ GoroutineOver(p) => Cardinality(At(p, "close")) = 1

\* the callbacks spawned at the places is of plog[p]
Spawned(p, is) == {plog[p][i].a : i \in is}

\* C16: an Accept that admits a peer sends WELCOME, then spawns every
\* registered open callback, then starts the realm's session loop; every
\* registered close callback is spawned once for the session, after the
\* loop has exited and the session has been closed.  An Accept whose
\* WELCOME send fails returns that error, spawns no callback and starts no
\* loop.
C16_OrderOfAccept ==
    \A p \in Peers :
       /\ Cardinality(At(p, "WELCOME")) <= 1
       /\ Cardinality(At(p, "handleSession")) <= 1
       /\ \A i \in At(p, "go open") : \E w \in Welcomed(p) : w < i
       /\ \A h \in At(p, "handleSession") :
             /\ \E w \in Welcomed(p) : w < h
             /\ \A i \in At(p, "go open") : i < h
             /\ Spawned(p, At(p, "go open"))
                   = Registered(sessionOpenCallbacks)
             /\ Cardinality(At(p, "go open")) = Len(sessionOpenCallbacks)
       /\ \A i \in At(p, "go close") :
             \E h \in At(p, "handleSession"), x \in At(p, "exit"),
                c \in At(p, "close") : h < x /\ x < c /\ c < i
       /\ Cardinality(At(p, "go close")) <= Len(sessionCloseCallbacks)
       /\ GoroutineOver(p) =>
             /\ Spawned(p, At(p, "go close"))
                   = Registered(sessionCloseCallbacks)
             /\ Cardinality(At(p, "go close")) = Len(sessionCloseCallbacks)
       /\ aret[p] = "nil" <=> At(p, "handleSession") # {}
       /\ At(p, "WELCOME") \ Welcomed(p) # {} =>
             /\ aret[p] = "send error"
             /\ At(p, "go open") = {} /\ At(p, "go close") = {}
             /\ At(p, "handleSession") = {}
             /\ spc[p] = "none"

\* with an open and a close callback registered, the session of a peer has
\* run to its end, and the WELCOME of another peer has failed
C16_Witness ==
    \E p, q \in Peers :
       /\ GoroutineOver(p)
       /\ At(p, "go open") # {} /\ At(p, "go close") # {}
       /\ aret[q] = "send error"

\* a Close call has closed the realms and returned nil
CloseDone == \E c \in Closers : cpc[c] = "nil"

C19_Shutdown ==
    CloseDone => \A p \in Peers : spc[p] = "loop" => kill[p]

C19_Admits ==
    \A p \in Peers :
       (\/ Cardinality(Welcomed(p))' > Cardinality(Welcomed(p))
        \/ spc[p] # "loop" /\ spc'[p] = "loop")
       => ~CloseDone

\* C19: however Accept and Close interleave, no WELCOME is sent and no
\* session loop is started after Close has returned, and every session
\* that runs when Close has returned has been given the shutdown's kill
\* reason: no admitted session survives a Close.
C19_NoSessionAfterClose == []C19_Shutdown /\ [][C19_Admits]_vars

====
